---------------------------- MODULE Spec2Model ----------------------------
(***************************************************************************)
(* gogiturl: parsing of Git remote addresses (URLs and the scp-like        *)
(* user@host:path shorthand) on top of Go's net/url.                       *)
(*                                                                         *)
(* The repository holds two versions of Parse:                             *)
(*   src/gogiturl.go       url.Parse first, munge on failure, recurse once *)
(*   src/unnamed/part_000  getscheme first, munge, then one url.Parse      *)
(* Both are modelled; `result` is what the first returns for `rawurl` and  *)
(* `result000` what the second returns.                                    *)
(*                                                                         *)
(* Strings are sequences of one-character strings, indexed as Go indexes   *)
(* them (from 0) through Index/Slice/From.  net/url is modelled as Go 1.8  *)
(* and later implement it (a relative reference whose first path segment   *)
(* holds a colon is rejected); inputs hold no '%' and no control           *)
(* character, on which net/url's unescape is the identity.                 *)
(***************************************************************************)
EXTENDS Integers, Sequences, FiniteSets, TLC

(***************************************************************************)
(* Bounds of the model.                                                    *)
(***************************************************************************)
\* every string over Alphabet up to this length is an input
MaxLen == 4

(***************************************************************************)
(* Characters.                                                             *)
(***************************************************************************)
Lower == {"a", "d", "e", "f", "h", "i", "l", "p", "r", "s", "u", "x"}
Upper == {"S"}
Digits == {"1"}

isLetter(c) == c \in Lower \cup Upper
\* '0' <= c && c <= '9' || c == '+' || c == '-' || c == '.'
isSchemeExtra(c) == c \in Digits \cup {"+", "-", "."}

toLowerChar(c) == IF c = "S" THEN "s" ELSE c
ToLower(s) == [i \in 1..Len(s) |-> toLowerChar(s[i])]

(***************************************************************************)
(* Package strings, with Go's 0-based indexes.                             *)
(***************************************************************************)
\* s[a:b]
Slice(s, a, b) == SubSeq(s, a + 1, b)
\* s[a:]
From(s, a) == SubSeq(s, a + 1, Len(s))
\* strings.Index(s, c) for a one-character c: -1 when absent
Index(s, c) ==
  IF \E i \in 1..Len(s) : s[i] = c
  THEN (CHOOSE i \in 1..Len(s) : s[i] = c /\ \A k \in 1..(i - 1) : s[k] # c) - 1
  ELSE -1
\* strings.LastIndex(s, c)
LastIndex(s, c) ==
  IF \E i \in 1..Len(s) : s[i] = c
  THEN (CHOOSE i \in 1..Len(s) : s[i] = c /\ \A k \in (i + 1)..Len(s) : s[k] # c) - 1
  ELSE -1
Contains(s, c) == Index(s, c) >= 0
Count(s, c) == Cardinality({i \in 1..Len(s) : s[i] = c})
HasPrefix(s, p) == Len(s) >= Len(p) /\ SubSeq(s, 1, Len(p)) = p
HasSuffix(s, p) == Len(s) >= Len(p) /\ SubSeq(s, Len(s) - Len(p) + 1, Len(s)) = p
\* strings.Cut(s, c)
Cut(s, c) ==
  LET i == Index(s, c) IN
  IF i < 0 THEN [before |-> s, after |-> <<>>, found |-> FALSE]
  ELSE [before |-> Slice(s, 0, i), after |-> From(s, i + 1), found |-> TRUE]
\* strings.Replace(s, old, new, 1) for one-character old and new
Replace1(s, old, new) ==
  LET i == Index(s, old) IN
  IF i < 0 THEN s ELSE Slice(s, 0, i) \o <<new>> \o From(s, i + 1)

(***************************************************************************)
(* net/url: the URL value and Parse.                                       *)
(***************************************************************************)
NoUser == [set |-> FALSE, username |-> <<>>, password |-> <<>>, passwordSet |-> FALSE]

EmptyURL ==
  [Scheme |-> <<>>, Opaque |-> <<>>, User |-> NoUser, Host |-> <<>>,
   Path |-> <<>>, RawQuery |-> <<>>, ForceQuery |-> FALSE,
   Fragment |-> <<>>, OmitHost |-> FALSE]

UrlOK(u) == [err |-> "", url |-> u]
UrlErr(e) == [err |-> e, url |-> EmptyURL]

ErrMissingScheme == "missing protocol scheme"
ErrFirstSegmentColon == "first path segment in URL cannot contain colon"
ErrMissingBracket == "missing ']' in host"
ErrInvalidPort == "invalid port after host"
ErrInvalidHostChar == "invalid character in host name"
ErrInvalidUserinfo == "net/url: invalid userinfo"

\* net/url getScheme: the scan from index i
RECURSIVE urlGetSchemeFrom(_, _)
urlGetSchemeFrom(rawURL, i) ==
  IF i >= Len(rawURL) THEN [scheme |-> <<>>, path |-> rawURL, err |-> ""]
  ELSE LET c == rawURL[i + 1] IN
    IF isLetter(c) THEN urlGetSchemeFrom(rawURL, i + 1)
    ELSE IF isSchemeExtra(c) THEN
      IF i = 0 THEN [scheme |-> <<>>, path |-> rawURL, err |-> ""]
      ELSE urlGetSchemeFrom(rawURL, i + 1)
    ELSE IF c = ":" THEN
      IF i = 0 THEN [scheme |-> <<>>, path |-> <<>>, err |-> ErrMissingScheme]
      ELSE [scheme |-> Slice(rawURL, 0, i), path |-> From(rawURL, i + 1), err |-> ""]
    ELSE [scheme |-> <<>>, path |-> rawURL, err |-> ""]

\* net/url validOptionalPort
validOptionalPort(port) ==
  \/ port = <<>>
  \/ /\ port[1] = ":"
     /\ \A k \in 2..Len(port) : port[k] \in Digits

\* net/url shouldEscape(c, encodeHost) is false for these
hostCharOK(c) ==
  \/ isLetter(c)
  \/ c \in Digits
  \/ c \in {"-", "_", ".", "~", "+", ":", "[", "]"}

\* net/url validUserinfo
validUserinfo(s) ==
  \A k \in 1..Len(s) :
    \/ isLetter(s[k])
    \/ s[k] \in Digits
    \/ s[k] \in {"-", ".", "_", ":", "~", "+", "@"}

\* net/url parseHost
parseHost(host) ==
  IF HasPrefix(host, <<"[">>) THEN
    LET i == LastIndex(host, "]") IN
    IF i < 0 THEN [host |-> <<>>, err |-> ErrMissingBracket]
    ELSE IF ~validOptionalPort(From(host, i + 1))
      THEN [host |-> <<>>, err |-> ErrInvalidPort]
    ELSE IF \E k \in 1..Len(host) : ~hostCharOK(host[k])
      THEN [host |-> <<>>, err |-> ErrInvalidHostChar]
    ELSE [host |-> host, err |-> ""]
  ELSE
    LET i == LastIndex(host, ":") IN
    IF i # -1 /\ ~validOptionalPort(From(host, i))
      THEN [host |-> <<>>, err |-> ErrInvalidPort]
    ELSE IF \E k \in 1..Len(host) : ~hostCharOK(host[k])
      THEN [host |-> <<>>, err |-> ErrInvalidHostChar]
    ELSE [host |-> host, err |-> ""]

\* net/url parseAuthority
parseAuthority(authority) ==
  LET i == LastIndex(authority, "@")
      h == IF i < 0 THEN parseHost(authority) ELSE parseHost(From(authority, i + 1))
      userinfo == IF i < 0 THEN <<>> ELSE Slice(authority, 0, i)
      up == Cut(userinfo, ":")
  IN
  IF h.err # "" THEN [user |-> NoUser, host |-> <<>>, err |-> h.err]
  ELSE IF i < 0 THEN [user |-> NoUser, host |-> h.host, err |-> ""]
  ELSE IF ~validUserinfo(userinfo)
    THEN [user |-> NoUser, host |-> <<>>, err |-> ErrInvalidUserinfo]
  ELSE [user |-> [set |-> TRUE, username |-> up.before,
                  password |-> up.after, passwordSet |-> up.found],
        host |-> h.host, err |-> ""]

\* net/url parse(rawURL, viaRequest = false): everything but the fragment
urlparse(rawURL) ==
  LET gs == urlGetSchemeFrom(rawURL, 0) IN
  IF gs.err # "" THEN UrlErr(gs.err)
  ELSE
    LET scheme == ToLower(gs.scheme)
        force == HasSuffix(gs.path, <<"?">>) /\ Count(gs.path, "?") = 1
        qc == Cut(gs.path, "?")
        rest == IF force THEN Slice(gs.path, 0, Len(gs.path) - 1) ELSE qc.before
        rawq == IF force THEN <<>> ELSE qc.after
        base == [EmptyURL EXCEPT !.Scheme = scheme, !.RawQuery = rawq,
                                 !.ForceQuery = force]
    IN
    IF ~HasPrefix(rest, <<"/">>) /\ scheme # <<>>
      THEN UrlOK([base EXCEPT !.Opaque = rest])
    ELSE IF ~HasPrefix(rest, <<"/">>) /\ Contains(Cut(rest, "/").before, ":")
      THEN UrlErr(ErrFirstSegmentColon)
    ELSE IF (scheme # <<>> \/ ~HasPrefix(rest, <<"/", "/", "/">>))
            /\ HasPrefix(rest, <<"/", "/">>)
      THEN
        LET after == From(rest, 2)
            i == Index(after, "/")
            authority == IF i >= 0 THEN Slice(after, 0, i) ELSE after
            path == IF i >= 0 THEN From(after, i) ELSE <<>>
            a == parseAuthority(authority)
        IN
        IF a.err # "" THEN UrlErr(a.err)
        ELSE UrlOK([base EXCEPT !.User = a.user, !.Host = a.host, !.Path = path])
    ELSE UrlOK([base EXCEPT !.Path = rest,
                            !.OmitHost = (scheme # <<>> /\ HasPrefix(rest, <<"/">>))])

\* net/url Parse: cut the fragment off, parse the rest
urlParse(rawURL) ==
  LET fc == Cut(rawURL, "#")
      r == urlparse(fc.before)
  IN
  IF r.err # "" THEN r
  ELSE UrlOK([r.url EXCEPT !.Fragment = fc.after])


(***************************************************************************)
(* What a call of Parse comes to.  state is "returned" or "panicked"; on a *)
(* return err is the error ("" for nil) and isnil tells a nil *GitURL;     *)
(* rawurl is the string the last url.Parse was given and calls the number  *)
(* of url.Parse calls made.                                                *)
(***************************************************************************)
Returned(u, rawurl) ==
  [state |-> "returned", err |-> "", isnil |-> FALSE, url |-> u,
   rawurl |-> rawurl, calls |-> 1, panic |-> ""]
Failed(e, rawurl, calls) ==
  [state |-> "returned", err |-> e, isnil |-> TRUE, url |-> EmptyURL,
   rawurl |-> rawurl, calls |-> calls, panic |-> ""]
Panicked(what, rawurl) ==
  [state |-> "panicked", err |-> "", isnil |-> TRUE, url |-> EmptyURL,
   rawurl |-> rawurl, calls |-> 1, panic |-> what]
NotCalled ==
  [state |-> "idle", err |-> "", isnil |-> TRUE, url |-> EmptyURL,
   rawurl |-> <<>>, calls |-> 0, panic |-> ""]

PanicSliceBounds == "slice bounds out of range"
PanicNilDeref == "invalid memory address or nil pointer dereference"

(***************************************************************************)
(* src/gogiturl.go                                                         *)
(***************************************************************************)
ErrNoColon == "No colon (:) in URL to delimit host:path boundary"

\* getScheme: the scan from index i
RECURSIVE getSchemeFrom(_, _)
getSchemeFrom(rawurl, i) ==
  IF i >= Len(rawurl) THEN [scheme |-> <<>>, path |-> rawurl, err |-> ErrMissingScheme]
  ELSE LET c == rawurl[i + 1] IN
    IF isLetter(c) THEN getSchemeFrom(rawurl, i + 1)
    ELSE IF isSchemeExtra(c) THEN
      IF i = 0 THEN [scheme |-> <<>>, path |-> rawurl, err |-> ErrMissingScheme]
      ELSE getSchemeFrom(rawurl, i + 1)
    ELSE IF c = ":" THEN
      IF i = 0 THEN [scheme |-> <<>>, path |-> <<>>, err |-> ErrMissingScheme]
      ELSE [scheme |-> Slice(rawurl, 0, i), path |-> From(rawurl, i + 1), err |-> ""]
    ELSE [scheme |-> <<>>, path |-> rawurl, err |-> ErrMissingScheme]

getScheme(rawurl) == getSchemeFrom(rawurl, 0)

\* delimiter without the search after ']': the first colon anywhere
delimiterFirstColon(rawurl) == Index(rawurl, ":")

\* the index j of the colon taken as the host:path delimiter, -1 when none
delimiter(rawurl) ==
  LET i == Index(rawurl, "]")
      j == IF i < 0 THEN Index(rawurl, ":") ELSE Index(From(rawurl, i), ":")
  IN
  IF j < 0 THEN -1
  ELSE IF i >= 0 THEN j + i
  ELSE j

\* mungedurl with the forced scheme mistyped
mungedurlWrongScheme(rawurl, j) ==
  <<"s", "h", ":", "/", "/">> \o Slice(rawurl, 0, j)
    \o Replace1(From(rawurl, j), ":", "/")

\* "ssh://" + rawurl[:j] + strings.Replace(rawurl[j:], ":", "/", 1)
mungedurl(rawurl, j) ==
  <<"s", "s", "h", ":", "/", "/">> \o Slice(rawurl, 0, j)
    \o Replace1(From(rawurl, j), ":", "/")

\* needsStrip without the comparison: the adjustment applied to every result
needsStripAlways(rawurl, origrawurl) == TRUE

\* whether the Path adjustment is applied
needsStrip(rawurl, origrawurl) == rawurl # origrawurl

\* url.Path = url.Path[1:]
stripPath(u) == [u EXCEPT !.Path = From(u.Path, 1)]

\* noColon with the comparison off by one
noColonOffByOne(rawurl) == Index(rawurl, ":") < -1

\* strings.Index(rawurl, ":") < 0
noColon(rawurl) == Index(rawurl, ":") < 0

RECURSIVE parse(_, _)
parse(rawurl, origrawurl) ==
  LET r == urlParse(rawurl) IN
  IF r.err = "" THEN
    IF needsStrip(rawurl, origrawurl) THEN
      IF Len(r.url.Path) < 1 THEN Panicked(PanicSliceBounds, rawurl)
      ELSE Returned(stripPath(r.url), rawurl)
    ELSE Returned(r.url, rawurl)
  ELSE IF noColon(rawurl) THEN Failed(r.err, rawurl, 1)
  ELSE
    LET gs == getScheme(rawurl) IN
    IF gs.err = "" \/ gs.scheme # <<>> THEN Failed(r.err, rawurl, 1)
    ELSE
      LET j == delimiter(rawurl) IN
      IF j < 0 THEN Failed(ErrNoColon, rawurl, 1)
      ELSE [parse(mungedurl(rawurl, j), origrawurl) EXCEPT !.calls = @ + 1]

Parse(rawurl) == parse(rawurl, rawurl)

(***************************************************************************)
(* src/unnamed/part_000                                                    *)
(***************************************************************************)
ErrSchemeOnly == "malformed URL contains scheme only"
ErrNoDelimiter == "no colon (:) in URL to delimit host:path boundary"
ErrNoScheme == "no scheme"
ErrInvalidScheme == "invalid character in scheme"

\* getscheme: the scan from index i
RECURSIVE getschemeFrom(_, _)
getschemeFrom(rawurl, i) ==
  LET urllen == Len(rawurl) IN
  IF i >= urllen THEN [scheme |-> <<>>, urlremainder |-> <<>>, err |-> ErrNoScheme]
  ELSE LET c == rawurl[i + 1] IN
    IF isLetter(c) THEN getschemeFrom(rawurl, i + 1)
    ELSE IF isSchemeExtra(c) THEN
      IF i = 0 THEN [scheme |-> <<>>, urlremainder |-> <<>>, err |-> ErrNoScheme]
      ELSE getschemeFrom(rawurl, i + 1)
    ELSE IF c = ":" THEN
      IF i > 0 /\ urllen >= i + 3 /\ Slice(rawurl, i + 1, i + 3) = <<"/", "/">> THEN
        IF urllen >= i + 4
          THEN [scheme |-> Slice(rawurl, 0, i), urlremainder |-> From(rawurl, i + 4),
                err |-> ""]
        ELSE [scheme |-> Slice(rawurl, 0, i), urlremainder |-> <<>>, err |-> ""]
      ELSE [scheme |-> <<>>, urlremainder |-> <<>>, err |-> ErrNoScheme]
    ELSE [scheme |-> <<>>, urlremainder |-> <<>>, err |-> ErrInvalidScheme]

getscheme(rawurl) == getschemeFrom(rawurl, 0)

mungeGitURL(rawurl) ==
  LET i == Index(rawurl, "]")
      j == IF i < 0 THEN Index(rawurl, ":") ELSE Index(From(rawurl, i), ":")
      jj == IF i >= 0 THEN j + i ELSE j
  IN
  IF j < 0 THEN [mungedurl |-> <<>>, err |-> ErrNoDelimiter]
  ELSE [mungedurl |-> <<"s", "s", "h", ":", "/", "/">> \o Slice(rawurl, 0, jj)
                        \o Replace1(From(rawurl, jj), ":", "/"),
        err |-> ""]

\* rawurl = "file:///" + rawurl
fileURL(rawurl) == <<"f", "i", "l", "e", ":", "/", "/", "/">> \o rawurl

\* whether Parse takes the branch that rewrites rawurl
needsMunge(rawurl) ==
  LET gs == getscheme(rawurl) IN gs.err # "" \/ gs.scheme = <<>>

\* schemeOnly testing the scheme where it should test the remainder
schemeOnlyByScheme(rawurl) ==
  LET gs == getscheme(rawurl) IN gs.err = "" /\ gs.scheme = <<>>

\* whether Parse gives up on a scheme with nothing after it
schemeOnly(rawurl) ==
  LET gs == getscheme(rawurl) IN gs.err = "" /\ gs.urlremainder = <<>>

\* url.Path = url.Path[1:]
stripPath000(u) == [u EXCEPT !.Path = From(u.Path, 1)]

Parse_part_000(rawurl) ==
  IF schemeOnly(rawurl) THEN Failed(ErrSchemeOnly, rawurl, 0)
  ELSE
    LET munged == needsMunge(rawurl)
        m == IF ~munged THEN [mungedurl |-> rawurl, err |-> ""]
             ELSE IF Index(rawurl, ":") < 0
               THEN [mungedurl |-> fileURL(rawurl), err |-> ""]
             ELSE mungeGitURL(rawurl)
    IN
    IF m.err # "" THEN Failed(m.err, rawurl, 0)
    ELSE
      LET r == urlParse(m.mungedurl) IN
      IF r.err = "" THEN
        IF munged THEN
          IF Len(r.url.Path) < 1 THEN Panicked(PanicSliceBounds, m.mungedurl)
          ELSE Returned(stripPath000(r.url), m.mungedurl)
        ELSE Returned(r.url, m.mungedurl)
      ELSE Panicked(PanicNilDeref, m.mungedurl)

(***************************************************************************)
(* The inputs: every string over Alphabet up to MaxLen characters, the     *)
(* scp-like addresses built from the parts below, and the addresses the    *)
(* documentation names (with one-letter names).                            *)
(***************************************************************************)
Alphabet == {"s", "1", ":", "/", "@", "[", "]", "?", "#"}

Strings(n) == UNION {[1..k -> Alphabet] : k \in 0..n}

Users == {<<>>, <<"u">>}
Names == {<<"h">>, <<"h", ".", "x">>, <<"1", ".", "1">>, <<"S">>}
V6Hosts == {<<"[", ":", ":", "1", "]">>, <<"[", "d", ":", "e", ":", ":", "1", "]">>}
RelPaths == {<<"p">>, <<"p", "/", "r">>, <<"~", "u", "/", "p">>, <<"p", ":", "]">>}
AbsPaths == {<<"/", "p">>, <<"/", "p", "/", "r", "/">>, <<"/", "/", "p">>}

Address(user, host, path) ==
  (IF user = <<>> THEN <<>> ELSE user \o <<"@">>) \o host \o <<":">> \o path

ScpAddresses ==
  {Address(u, h, p) : u \in Users, h \in Names \cup V6Hosts,
                      p \in RelPaths \cup AbsPaths}

Qualified ==
  { <<"s", "s", "h", ":", "/", "/">>,
    <<"s", "s", "h", ":", "/", "/", "h">>,
    <<"s", "s", "h", ":", "/", "/", "h", "x">>,
    <<"S", "s", "h", ":", "/", "/", "u", "@", "h", "/", "p">>,
    <<"s", "+", "1", ":", "/", "/", "h", ":", "1", "/", "p", "?", "a", "#", "d">>,
    <<"f", "i", "l", "e", ":", "/", "/", "/", "p">>,
    <<"s", "s", "h", ":", "/", "/", "h", " ", "x", "/", "p">>,
    <<"h", " ", "x", ":", "p">> }

Malformed ==
  { <<"[", ":", ":", "1", "]", "?", ":", "x">>,
    <<"u", "@", "[", "a", ":", "p">>,
    <<"/", "/", "h", ":", "x", "/", "p">>,
    <<"/", "/", "[", "h", "/", "p">> }

Inputs == Strings(MaxLen) \cup ScpAddresses \cup Qualified \cup Malformed

(***************************************************************************)
(* The state machine: one address, handed to each Parse once.              *)
(***************************************************************************)
VARIABLES rawurl, result, result000

vars == <<rawurl, result, result000>>

Init ==
  /\ rawurl \in Inputs
  /\ result = NotCalled
  /\ result000 = NotCalled

\* gogiturl.go: Parse(rawurl)
CallParse ==
  /\ result.state = "idle"
  /\ result' = Parse(rawurl)
  /\ UNCHANGED <<rawurl, result000>>

\* part_000: Parse(rawurl)
CallParse000 ==
  /\ result000.state = "idle"
  /\ result000' = Parse_part_000(rawurl)
  /\ UNCHANGED <<rawurl, result>>

Next == CallParse \/ CallParse000

Spec == Init /\ [][Next]_vars

(***************************************************************************)
(* Shapes of input the properties speak of, read off the input text alone. *)
(***************************************************************************)
SSH == <<"s", "s", "h">>
FILE == <<"f", "i", "l", "e">>

\* what url.Parse makes of the input as given
Direct == urlParse(rawurl)

Called(r) == r.state # "idle"
Succeeded(r) == r.state = "returned" /\ r.err = ""
\* url.Parse was called, and last on a string that is not the input
Rewritten(r) == r.calls >= 1 /\ r.rawurl # rawurl
\* url.Parse was called, and only on the input itself
ParsedAsGiven(r) == r.calls >= 1 /\ r.rawurl = rawurl

isNameChar(c) == isLetter(c) \/ c \in Digits \/ c \in {".", "-"}
isPathChar(c) == isLetter(c) \/ c \in Digits \/ c \in {".", "-", "~", "/", "+"}
isHexChar(c) == isLetter(c) \/ c \in Digits

IsName(s) == s # <<>> /\ \A k \in 1..Len(s) : isNameChar(s[k])
IsUserName(s) == s # <<>> /\ \A k \in 1..Len(s) : isLetter(s[k]) \/ s[k] \in Digits
\* a scheme token: a letter, then letters, digits, '+', '-', '.'
IsSchemeToken(s) ==
  /\ s # <<>>
  /\ isLetter(s[1])
  /\ \A k \in 1..Len(s) : isLetter(s[k]) \/ isSchemeExtra(s[k])

\* [user@]host:path split at the first colon
ScpParts(raw) ==
  LET c == Index(raw, ":")
      head == IF c < 0 THEN <<>> ELSE Slice(raw, 0, c)
      a == Index(head, "@")
      user == IF a < 0 THEN <<>> ELSE Slice(head, 0, a)
      host == IF a < 0 THEN head ELSE From(head, a + 1)
      path == IF c < 0 THEN <<>> ELSE From(raw, c + 1)
  IN [ok |-> c > 0 /\ IsName(host) /\ (a >= 0 => IsUserName(user))
               /\ \A k \in 1..Len(path) : isPathChar(path[k]),
      hasUser |-> a >= 0, user |-> user, host |-> host, path |-> path]

IsScpRel(raw) ==
  LET p == ScpParts(raw) IN p.ok /\ p.path # <<>> /\ p.path[1] # "/"
\* (a path that starts with "//" would make host://... a URL, not shorthand)
IsScpAbs(raw) ==
  LET p == ScpParts(raw) IN
  p.ok /\ p.path # <<>> /\ p.path[1] = "/" /\ ~HasPrefix(p.path, <<"/", "/">>)

\* [user@][v6addr]:path split at the colon after the closing bracket
V6Parts(raw) ==
  LET b == Index(raw, "]")
      head == IF b < 0 THEN <<>> ELSE Slice(raw, 0, b)
      a == Index(head, "@")
      user == IF a < 0 THEN <<>> ELSE Slice(head, 0, a)
      open == IF a < 0 THEN head ELSE From(head, a + 1)
      addr == IF open = <<>> THEN <<>> ELSE Tail(open)
      path == IF b < 0 THEN <<>> ELSE From(raw, b + 2)
  IN [ok |-> /\ b > 0
             /\ open # <<>> /\ open[1] = "["
             /\ addr # <<>>
             /\ \A k \in 1..Len(addr) : addr[k] = ":" \/ isHexChar(addr[k])
             /\ (a >= 0 => IsUserName(user))
             /\ Len(raw) >= b + 2 /\ raw[b + 2] = ":"
             /\ \A k \in 1..Len(path) : path[k] \notin {"?", "#"},
      hasUser |-> a >= 0, user |-> user,
      host |-> <<"[">> \o addr \o <<"]">>,
      before |-> IF b < 0 THEN <<>> ELSE Slice(raw, 0, b + 1),
      path |-> path]

\* scheme://X
QualifiedParts(raw) ==
  LET c == Index(raw, ":")
      scheme == IF c < 0 THEN <<>> ELSE Slice(raw, 0, c)
      tail == IF c < 0 THEN <<>> ELSE From(raw, c + 1)
  IN [ok |-> c > 0 /\ IsSchemeToken(scheme) /\ HasPrefix(tail, <<"/", "/">>),
      scheme |-> scheme,
      remainder |-> IF Len(tail) >= 2 THEN From(tail, 2) ELSE <<>>]

UserIs(u, parts) ==
  IF parts.hasUser
  THEN u.User = [set |-> TRUE, username |-> parts.user, password |-> <<>>,
                 passwordSet |-> FALSE]
  ELSE u.User = NoUser

(***************************************************************************)
(* Properties.                                                             *)
(***************************************************************************)

\* C1 as stated: an input url.Parse accepts as given is returned by Parse
\* exactly as url.Parse returns it, with no rewrite and no Path adjustment,
\* by both versions.
C1_AcceptedReturnedUnchanged ==
  Direct.err = "" =>
    \A r \in {result, result000} :
      Called(r) => r = Returned(Direct.url, rawurl)

\* C1 amended: gogiturl.go returns url.Parse's result unchanged for every
\* input url.Parse accepts; part_000 does so whenever it hands the input to
\* url.Parse as given (it rewrites or rejects the others first).
C1_UnchangedWhenParsedAsGiven ==
  Direct.err = "" =>
    /\ Called(result) => result = Returned(Direct.url, rawurl)
    /\ ParsedAsGiven(result000) => result000 = Returned(Direct.url, rawurl)

C1_Witness ==
  /\ Direct.err = ""
  /\ Direct.url.Host # <<>>
  /\ Direct.url.Path # <<>>
  /\ result = Returned(Direct.url, rawurl)
  /\ result000 = Returned(Direct.url, rawurl)

\* C2 as stated: [user@]host:relpath gives scheme ssh, the user, the host
\* and the path "/" + relpath.
C2_RelativeShorthand ==
  IsScpRel(rawurl) =>
    LET p == ScpParts(rawurl) IN
    \A r \in {result, result000} :
      Called(r) =>
        /\ Succeeded(r)
        /\ r.url.Scheme = SSH
        /\ UserIs(r.url, p)
        /\ r.url.Host = p.host
        /\ r.url.Path = <<"/">> \o p.path

\* C3 as stated: [user@]host:abspath gives scheme ssh, the host and the
\* path exactly as written after the colon.
C3_AbsoluteShorthand ==
  IsScpAbs(rawurl) =>
    LET p == ScpParts(rawurl) IN
    \A r \in {result, result000} :
      Called(r) =>
        /\ Succeeded(r)
        /\ r.url.Scheme = SSH
        /\ r.url.Host = p.host
        /\ r.url.Path = p.path

\* C4: for [user@][v6addr]:path the delimiter is the colon right after the
\* closing bracket: the rewritten string is ssh:// + the text up to the
\* bracket + "/" + the text after that colon, the host is the whole
\* bracketed literal and the path is everything after the delimiter.
C4_BracketedHostDelimiter ==
  V6Parts(rawurl).ok =>
    LET p == V6Parts(rawurl) IN
    \A r \in {result, result000} :
      Called(r) =>
        /\ Succeeded(r)
        /\ r.rawurl = <<"s", "s", "h", ":", "/", "/">> \o p.before \o <<"/">> \o p.path
        /\ r.url.Scheme = SSH
        /\ UserIs(r.url, p)
        /\ r.url.Host = p.host
        /\ r.url.Path = p.path

C4_Witness ==
  /\ V6Parts(rawurl).ok
  /\ V6Parts(rawurl).hasUser
  /\ Count(V6Parts(rawurl).host, ":") >= 2
  /\ Succeeded(result) /\ result.calls = 2
  /\ Succeeded(result000)
  /\ result.url.Path = <<"/", "p">>

\* C5 as stated: scheme:// with nothing after it fails with the
\* scheme-only error and no URL, in both versions.
C5_SchemeOnlyFails ==
  (QualifiedParts(rawurl).ok /\ QualifiedParts(rawurl).remainder = <<>>) =>
    \A r \in {result, result000} :
      Called(r) => r.state = "returned" /\ r.err = ErrSchemeOnly /\ r.isnil

\* C5 amended: scheme:// with nothing after it fails with the scheme-only
\* error in part_000, before any url.Parse; gogiturl.go has no such error
\* and returns what url.Parse makes of it: the lower-cased scheme and
\* nothing else.
C5_SchemeOnlyPerVersion ==
  (QualifiedParts(rawurl).ok /\ QualifiedParts(rawurl).remainder = <<>>) =>
    /\ Called(result000) => result000 = Failed(ErrSchemeOnly, rawurl, 0)
    /\ Called(result) =>
         result = Returned([EmptyURL EXCEPT
                              !.Scheme = ToLower(QualifiedParts(rawurl).scheme)],
                           rawurl)

C5_Witness ==
  /\ rawurl = <<"s", "s", "h", ":", "/", "/">>
  /\ result000.err = ErrSchemeOnly
  /\ Succeeded(result)

\* C6 as stated: an input with no colon fails with an error and is never
\* rewritten, in both versions.
C6_NoColonFails ==
  ~Contains(rawurl, ":") =>
    \A r \in {result, result000} :
      Called(r) => r.state = "returned" /\ r.err # "" /\ ~Rewritten(r)

\* C6 amended: for an input with no colon, gogiturl.go never rewrites and
\* returns just what url.Parse returns for the input: its error when it
\* rejects it, its result (a relative reference) when it accepts it;
\* part_000 rewrites the input to file:/// + input and, when url.Parse
\* accepts that, returns scheme "file".
C6_NoColonPerVersion ==
  ~Contains(rawurl, ":") =>
    /\ Called(result) =>
         /\ ~Rewritten(result)
         /\ result.calls = 1
         /\ Direct.err = "" => result = Returned(Direct.url, rawurl)
         /\ Direct.err # "" => result = Failed(Direct.err, rawurl, 1)
    /\ Called(result000) =>
         /\ result000.rawurl = <<"f", "i", "l", "e", ":", "/", "/", "/">> \o rawurl
         /\ Succeeded(result000) => result000.url.Scheme = FILE

C6_Witness ==
  /\ ~Contains(rawurl, ":")
  /\ Direct.err # ""
  /\ result = Failed(Direct.err, rawurl, 1)
  /\ Succeeded(result000)

\* C7 as stated: a successful Parse returns a non-empty scheme, and the
\* scheme "ssh" whenever the input was rewritten.
C7_SchemeGuarantee ==
  \A r \in {result, result000} :
    Succeeded(r) =>
      /\ r.url.Scheme # <<>>
      /\ Rewritten(r) => r.url.Scheme = SSH

\* C7 amended: a successful Parse of a rewritten input returns the scheme
\* "ssh", except that part_000 returns "file" for the colon-less inputs it
\* rewrites; part_000 always returns a non-empty scheme, gogiturl.go may
\* return an empty one for an input parsed as given.
C7_SchemePerVersion ==
  /\ (Succeeded(result) /\ Rewritten(result)) => result.url.Scheme = SSH
  /\ Succeeded(result000) =>
       /\ result000.url.Scheme # <<>>
       /\ Rewritten(result000) =>
            result000.url.Scheme = IF Contains(rawurl, ":") THEN SSH ELSE FILE

C7_Witness ==
  /\ Succeeded(result) /\ Rewritten(result)
  /\ Succeeded(result000) /\ Rewritten(result000)
  /\ result000.url.Scheme = SSH
  /\ result.url.Host # <<>>

\* C8 as stated: when the rewritten string is rejected by url.Parse, Parse
\* returns that error and no URL, without crashing, after at most two
\* url.Parse calls.
C8_RewrittenRejected ==
  \A r \in {result, result000} :
    (Rewritten(r) /\ urlParse(r.rawurl).err # "") =>
      /\ r.state = "returned"
      /\ r.err = urlParse(r.rawurl).err
      /\ r.isnil
      /\ r.calls <= 2

\* C9 as stated: scheme://X with X non-empty never fails with the
\* scheme-only error; the input goes to url.Parse as given.
C9_NonEmptyRemainder ==
  (QualifiedParts(rawurl).ok /\ QualifiedParts(rawurl).remainder # <<>>) =>
    \A r \in {result, result000} :
      Called(r) => r.err # ErrSchemeOnly /\ r.calls >= 1

\* C10 as stated: when the rewritten string is accepted, its path is not
\* empty and starts with '/', so the adjustment that drops the first path
\* character is defined, and Parse returns the reparsed path less that one
\* character.
C10_StripDefined ==
  \A r \in {result, result000} :
    (Rewritten(r) /\ urlParse(r.rawurl).err = "") =>
      /\ urlParse(r.rawurl).url.Path # <<>>
      /\ urlParse(r.rawurl).url.Path[1] = "/"
      /\ Succeeded(r)
      /\ r.url.Path = Tail(urlParse(r.rawurl).url.Path)

=============================================================================
